---- MODULE Spec2Model ----
(***************************************************************************)
(* A model of package systemd (src/systemd.go): the Daemon record with its  *)
(* Unit, Service, Install and Socket sections, Marshal / MarshalText and    *)
(* Unmarshal / UnmarshalText, and the gopkg.in/ini.v1 calls they make.      *)
(*                                                                         *)
(* Text is a sequence of tokens.  A token is one byte of punctuation       *)
(* ("[", "]", "=", ":", " ", "\n") or an atom: a key or section name, or a  *)
(* letter of a value.  A field value is a sequence of tokens, <<>> being    *)
(* the empty string.  A Go pointer is a sequence of length 0 (nil) or 1.    *)
(* Values never hold a line break, a quote or a comment symbol, so the      *)
(* quoting the ini writer applies to such values is not modelled.           *)
(***************************************************************************)
EXTENDS Integers, Sequences, FiniteSets, TLC

(***************************************************************************)
(* The declared fields of the four section records, in declaration order,  *)
(* each with its `systemd` and `ini` struct tags split at the commas.      *)
(***************************************************************************)
UnitFields ==
  <<
    [Field |-> "Description", systemd |-> <<"Description">>, ini |-> <<"Description">>],
    [Field |-> "Documentation", systemd |-> <<"Documentation", "omitempty">>, ini |-> <<"Documentation", "omitempty">>],
    [Field |-> "Requires", systemd |-> <<"Requires", "omitempty">>, ini |-> <<"Requires", "omitempty">>],
    [Field |-> "Requisite", systemd |-> <<"Requisite", "omitempty">>, ini |-> <<"Requisite", "omitempty">>],
    [Field |-> "Wants", systemd |-> <<"Wants", "omitempty">>, ini |-> <<"Wants", "omitempty">>],
    [Field |-> "BindsTo", systemd |-> <<"BindsTo", "omitempty">>, ini |-> <<"BindsTo", "omitempty">>],
    [Field |-> "PartOf", systemd |-> <<"PartOf", "omitempty">>, ini |-> <<"PartOf", "omitempty">>],
    [Field |-> "Conflicts", systemd |-> <<"Conflicts", "omitempty">>, ini |-> <<"Conflicts", "omitempty">>],
    [Field |-> "Before", systemd |-> <<"Before", "omitempty">>, ini |-> <<"Before", "omitempty">>],
    [Field |-> "After", systemd |-> <<"After", "omitempty">>, ini |-> <<"After", "omitempty">>],
    [Field |-> "OnFailure", systemd |-> <<"OnFailure", "omitempty">>, ini |-> <<"OnFailure", "omitempty">>],
    [Field |-> "PropagatesReloadTo", systemd |-> <<"PropagatesReloadTo", "omitempty">>, ini |-> <<"PropagatesReloadTo", "omitempty">>],
    [Field |-> "ReloadPropagatedFrom", systemd |-> <<"ReloadPropagatedFrom", "omitempty">>, ini |-> <<"ReloadPropagatedFrom", "omitempty">>],
    [Field |-> "JoinsNamespaceOf", systemd |-> <<"JoinsNamespaceOf", "omitempty">>, ini |-> <<"JoinsNamespaceOf", "omitempty">>],
    [Field |-> "RequiresMountsFor", systemd |-> <<"RequiresMountsFor", "omitempty">>, ini |-> <<"RequiresMountsFor", "omitempty">>],
    [Field |-> "OnFailureJobMode", systemd |-> <<"OnFailureJobMode", "omitempty">>, ini |-> <<"OnFailureJobMode", "omitempty">>],
    [Field |-> "IgnoreOnIsolate", systemd |-> <<"IgnoreOnIsolate", "omitempty">>, ini |-> <<"IgnoreOnIsolate", "omitempty">>],
    [Field |-> "StopWhenUnneeded", systemd |-> <<"StopWhenUnneeded", "omitempty">>, ini |-> <<"StopWhenUnneeded", "omitempty">>],
    [Field |-> "RefuseManualStart", systemd |-> <<"RefuseManualStart", "omitempty">>, ini |-> <<"RefuseManualStart", "omitempty">>],
    [Field |-> "RefuseManualStop", systemd |-> <<"RefuseManualStop", "omitempty">>, ini |-> <<"RefuseManualStop", "omitempty">>],
    [Field |-> "AllowIsolate", systemd |-> <<"AllowIsolate", "omitempty">>, ini |-> <<"AllowIsolate", "omitempty">>],
    [Field |-> "DefaultDependencies", systemd |-> <<"DefaultDependencies", "omitempty">>, ini |-> <<"DefaultDependencies", "omitempty">>],
    [Field |-> "JobTimeoutSec", systemd |-> <<"JobTimeoutSec", "omitempty">>, ini |-> <<"JobTimeoutSec", "omitempty">>],
    [Field |-> "JobTimeoutAction", systemd |-> <<"JobTimeoutAction", "omitempty">>, ini |-> <<"JobTimeoutAction", "omitempty">>],
    [Field |-> "StartLimitIntervalSec", systemd |-> <<"StartLimitIntervalSec", "omitempty">>, ini |-> <<"StartLimitIntervalSec", "omitempty">>],
    [Field |-> "StartLimitAction", systemd |-> <<"StartLimitAction", "omitempty">>, ini |-> <<"StartLimitAction", "omitempty">>],
    [Field |-> "Condition", systemd |-> <<"Condition", "omitempty">>, ini |-> <<"Condition", "omitempty">>],
    [Field |-> "Assert", systemd |-> <<"Assert", "omitempty">>, ini |-> <<"Assert", "omitempty">>],
    [Field |-> "SourcePath", systemd |-> <<"SourcePath", "omitempty">>, ini |-> <<"SourcePath", "omitempty">>]
  >>

ServiceFields ==
  <<
    [Field |-> "Type", systemd |-> <<"Type", "omitempty">>, ini |-> <<"Type", "omitempty">>],
    [Field |-> "ExecStart", systemd |-> <<"ExecStart">>, ini |-> <<"ExecStart">>],
    [Field |-> "ExecStartPre", systemd |-> <<"ExecStartPre", "omitempty">>, ini |-> <<"ExecStartPre", "omitempty">>],
    [Field |-> "ExecStartPost", systemd |-> <<"ExecStartPost", "omitempty">>, ini |-> <<"ExecStartPost", "omitempty">>],
    [Field |-> "ExecStop", systemd |-> <<"ExecStop", "omitempty">>, ini |-> <<"ExecStop", "omitempty">>],
    [Field |-> "ExecReload", systemd |-> <<"ExecReload", "omitempty">>, ini |-> <<"ExecReload", "omitempty">>],
    [Field |-> "RemainAfterExit", systemd |-> <<"RemainAfterExit", "omitempty">>, ini |-> <<"RemainAfterExit", "omitempty">>],
    [Field |-> "Restart", systemd |-> <<"Restart", "omitempty">>, ini |-> <<"Restart", "omitempty">>],
    [Field |-> "TimeoutSec", systemd |-> <<"TimeoutSec", "omitempty">>, ini |-> <<"TimeoutSec", "omitempty">>],
    [Field |-> "TimeoutStartSec", systemd |-> <<"TimeoutStartSec", "omitempty">>, ini |-> <<"TimeoutStartSec", "omitempty">>],
    [Field |-> "TimeoutStopSec", systemd |-> <<"TimeoutSec", "omitempty">>, ini |-> <<"TimeoutStopSec", "omitempty">>],
    [Field |-> "Environment", systemd |-> <<"Environment", "omitempty">>, ini |-> <<"Environment", "omitempty">>],
    [Field |-> "EnvironmentFile", systemd |-> <<"EnvironmentFile", "omitempty">>, ini |-> <<"EnvironmentFile", "omitempty">>],
    [Field |-> "WorkingDirectory", systemd |-> <<"WorkingDirectory", "omitempty">>, ini |-> <<"WorkingDirectory", "omitempty">>],
    [Field |-> "RootDirectory", systemd |-> <<"RootDirectory", "omitempty">>, ini |-> <<"RootDirectory", "omitempty">>],
    [Field |-> "User", systemd |-> <<"User", "omitempty">>, ini |-> <<"User", "omitempty">>],
    [Field |-> "Group", systemd |-> <<"Group", "omitempty">>, ini |-> <<"Group", "omitempty">>],
    [Field |-> "UMask", systemd |-> <<"UMask", "omitempty">>, ini |-> <<"UMask", "omitempty">>],
    [Field |-> "StandardError", systemd |-> <<"StandardError", "omitempty">>, ini |-> <<"StandardError", "omitempty">>],
    [Field |-> "StandardInput", systemd |-> <<"StandardInput", "omitempty">>, ini |-> <<"StandardInput", "omitempty">>],
    [Field |-> "StandardOutput", systemd |-> <<"StandardOutput", "omitempty">>, ini |-> <<"StandardOutput", "omitempty">>],
    [Field |-> "LimitNOFILE", systemd |-> <<"LimitNOFILE", "omitempty">>, ini |-> <<"LimitNOFILE", "omitempty">>],
    [Field |-> "LimitNPROC", systemd |-> <<"LimitNPROC", "omitempty">>, ini |-> <<"LimitNPROC", "omitempty">>],
    [Field |-> "RestartSec", systemd |-> <<"RestartSec", "omitempty">>, ini |-> <<"RestartSec", "omitempty">>],
    [Field |-> "SuccessExitStatus", systemd |-> <<"SuccessExitStatus", "omitempty">>, ini |-> <<"SuccessExitStatus", "omitempty">>],
    [Field |-> "RestartPreventExitStatus", systemd |-> <<"RestartPreventExitStatus", "omitempty">>, ini |-> <<"RestartPreventExitStatus", "omitempty">>],
    [Field |-> "RestartForceExitStatus", systemd |-> <<"RestartForceExitStatus", "omitempty">>, ini |-> <<"RestartForceExitStatus", "omitempty">>],
    [Field |-> "PermissionsStartOnly", systemd |-> <<"PermissionsStartOnly", "omitempty">>, ini |-> <<"PermissionsStartOnly", "omitempty">>],
    [Field |-> "RootDirectoryStartOnly", systemd |-> <<"RootDirectoryStartOnly", "omitempty">>, ini |-> <<"RootDirectoryStartOnly", "omitempty">>],
    [Field |-> "NonBlocking", systemd |-> <<"NonBlocking", "omitempty">>, ini |-> <<"NonBlocking", "omitempty">>],
    [Field |-> "NotifyAccess", systemd |-> <<"NotifyAccess", "omitempty">>, ini |-> <<"NotifyAccess", "omitempty">>],
    [Field |-> "Sockets", systemd |-> <<"Sockets", "omitempty">>, ini |-> <<"Sockets", "omitempty">>],
    [Field |-> "SuccessAction", systemd |-> <<"SuccessAction", "omitempty">>, ini |-> <<"SuccessAction", "omitempty">>],
    [Field |-> "FailureAction", systemd |-> <<"FailureAction", "omitempty">>, ini |-> <<"FailureAction", "omitempty">>],
    [Field |-> "CPUWeight", systemd |-> <<"CPUWeight", "omitempty">>, ini |-> <<"CPUWeight", "omitempty">>],
    [Field |-> "StartupCPUWeight", systemd |-> <<"StartupCPUWeight", "omitempty">>, ini |-> <<"StartupCPUWeight", "omitempty">>],
    [Field |-> "CPUQuota", systemd |-> <<"CPUQuota", "omitempty">>, ini |-> <<"CPUQuota", "omitempty">>],
    [Field |-> "MemoryLimit", systemd |-> <<"MemoryLimit", "omitempty">>, ini |-> <<"MemoryLimit", "omitempty">>],
    [Field |-> "TasksMax", systemd |-> <<"TasksMax", "omitempty">>, ini |-> <<"TasksMax", "omitempty">>],
    [Field |-> "AmbientCapabilities", systemd |-> <<"AmbientCapabilities", "omitempty">>, ini |-> <<"AmbientCapabilities", "omitempty">>],
    [Field |-> "CapabilityBoundingSet", systemd |-> <<"CapabilityBoundingSet", "omitempty">>, ini |-> <<"CapabilityBoundingSet", "omitempty">>],
    [Field |-> "ProtectSystem", systemd |-> <<"ProtectSystem", "omitempty">>, ini |-> <<"ProtectSystem", "omitempty">>],
    [Field |-> "ProtectHome", systemd |-> <<"ProtectHome", "omitempty">>, ini |-> <<"ProtectHome", "omitempty">>],
    [Field |-> "PrivateTmp", systemd |-> <<"PrivateTmp", "omitempty">>, ini |-> <<"PrivateTmp", "omitempty">>],
    [Field |-> "PrivateDevices", systemd |-> <<"PrivateDevices", "omitempty">>, ini |-> <<"PrivateDevices", "omitempty">>],
    [Field |-> "PrivateNetwork", systemd |-> <<"PrivateNetwork", "omitempty">>, ini |-> <<"PrivateNetwork", "omitempty">>],
    [Field |-> "ReadWritePaths", systemd |-> <<"ReadWritePaths", "omitempty">>, ini |-> <<"ReadWritePaths", "omitempty">>],
    [Field |-> "ReadOnlyPaths", systemd |-> <<"ReadOnlyPaths", "omitempty">>, ini |-> <<"ReadOnlyPaths", "omitempty">>],
    [Field |-> "InaccessiblePaths", systemd |-> <<"InaccessiblePaths", "omitempty">>, ini |-> <<"InaccessiblePaths", "omitempty">>],
    [Field |-> "NoNewPrivileges", systemd |-> <<"NoNewPrivileges", "omitempty">>, ini |-> <<"NoNewPrivileges", "omitempty">>]
  >>

InstallFields ==
  <<
    [Field |-> "WantedBy", systemd |-> <<"WantedBy", "omitempty">>, ini |-> <<"WantedBy", "omitempty">>],
    [Field |-> "RequiredBy", systemd |-> <<"RequiredBy", "omitempty">>, ini |-> <<"RequiredBy", "omitempty">>],
    [Field |-> "Alias", systemd |-> <<"Alias", "omitempty">>, ini |-> <<"Alias", "omitempty">>],
    [Field |-> "Also", systemd |-> <<"Also", "omitempty">>, ini |-> <<"Also", "omitempty">>],
    [Field |-> "DefaultInstance", systemd |-> <<"DefaultInstance", "omitempty">>, ini |-> <<"DefaultInstance", "omitempty">>]
  >>

SocketFields ==
  <<
    [Field |-> "ListenStream", systemd |-> <<"ListenStream", "omitempty">>, ini |-> <<"ListenStream", "omitempty">>],
    [Field |-> "ListenDatagram", systemd |-> <<"ListenDatagram", "omitempty">>, ini |-> <<"ListenDatagram", "omitempty">>],
    [Field |-> "ListenSequentialPacket", systemd |-> <<"ListenSequentialPacket", "omitempty">>, ini |-> <<"ListenSequentialPacket", "omitempty">>],
    [Field |-> "ListenFIFO", systemd |-> <<"ListenFIFO", "omitempty">>, ini |-> <<"ListenFIFO", "omitempty">>],
    [Field |-> "ListenSpecial", systemd |-> <<"ListenSpecial", "omitempty">>, ini |-> <<"ListenSpecial", "omitempty">>],
    [Field |-> "ListenNetlink", systemd |-> <<"ListenNetlink", "omitempty">>, ini |-> <<"ListenNetlink", "omitempty">>],
    [Field |-> "ListenMessageQueue", systemd |-> <<"ListenMessageQueue", "omitempty">>, ini |-> <<"ListenMessageQueue", "omitempty">>],
    [Field |-> "SocketMode", systemd |-> <<"SocketMode", "omitempty">>, ini |-> <<"SocketMode", "omitempty">>],
    [Field |-> "SocketUser", systemd |-> <<"SocketUser", "omitempty">>, ini |-> <<"SocketUser", "omitempty">>],
    [Field |-> "SocketGroup", systemd |-> <<"SocketGroup", "omitempty">>, ini |-> <<"SocketGroup", "omitempty">>],
    [Field |-> "SocketProtocol", systemd |-> <<"SocketProtocol", "omitempty">>, ini |-> <<"SocketProtocol", "omitempty">>],
    [Field |-> "BindToDevice", systemd |-> <<"BindToDevice", "omitempty">>, ini |-> <<"BindToDevice", "omitempty">>],
    [Field |-> "Service", systemd |-> <<"Service", "omitempty">>, ini |-> <<"Service", "omitempty">>],
    [Field |-> "PassCredentials", systemd |-> <<"PassCredentials", "omitempty">>, ini |-> <<"PassCredentials", "omitempty">>],
    [Field |-> "PassSecurity", systemd |-> <<"PassSecurity", "omitempty">>, ini |-> <<"PassSecurity", "omitempty">>],
    [Field |-> "ReceiveBuffer", systemd |-> <<"ReceiveBuffer", "omitempty">>, ini |-> <<"ReceiveBuffer", "omitempty">>],
    [Field |-> "SendBuffer", systemd |-> <<"SendBuffer", "omitempty">>, ini |-> <<"SendBuffer", "omitempty">>],
    [Field |-> "MaxConnections", systemd |-> <<"MaxConnections", "omitempty">>, ini |-> <<"MaxConnections", "omitempty">>],
    [Field |-> "MaxConnectionsPerSource", systemd |-> <<"MaxConnectionsPerSource", "omitempty">>, ini |-> <<"MaxConnectionsPerSource", "omitempty">>],
    [Field |-> "KeepAlive", systemd |-> <<"KeepAlive", "omitempty">>, ini |-> <<"KeepAlive", "omitempty">>],
    [Field |-> "KeepAliveTimeSec", systemd |-> <<"KeepAliveTimeSec", "omitempty">>, ini |-> <<"KeepAliveTimeSec", "omitempty">>],
    [Field |-> "KeepAliveIntervalSec", systemd |-> <<"KeepAliveIntervalSec", "omitempty">>, ini |-> <<"KeepAliveIntervalSec", "omitempty">>],
    [Field |-> "KeepAliveProbes", systemd |-> <<"KeepAliveProbes", "omitempty">>, ini |-> <<"KeepAliveProbes", "omitempty">>],
    [Field |-> "NoDelay", systemd |-> <<"NoDelay", "omitempty">>, ini |-> <<"NoDelay", "omitempty">>],
    [Field |-> "Priority", systemd |-> <<"Priority", "omitempty">>, ini |-> <<"Priority", "omitempty">>],
    [Field |-> "DeferAcceptSec", systemd |-> <<"DeferAcceptSec", "omitempty">>, ini |-> <<"DeferAcceptSec", "omitempty">>],
    [Field |-> "Accept", systemd |-> <<"Accept", "omitempty">>, ini |-> <<"Accept", "omitempty">>],
    [Field |-> "Writable", systemd |-> <<"Writable", "omitempty">>, ini |-> <<"Writable", "omitempty">>],
    [Field |-> "TriggerLimitIntervalSec", systemd |-> <<"TriggerLimitIntervalSec", "omitempty">>, ini |-> <<"TriggerLimitIntervalSec", "omitempty">>],
    [Field |-> "TriggerLimitBurst", systemd |-> <<"TriggerLimitBurst", "omitempty">>, ini |-> <<"TriggerLimitBurst", "omitempty">>]
  >>

(***************************************************************************)
(* Bytes and strings                                                       *)
(***************************************************************************)
NL == "\n"

IsSpace(t) == t \in {" ", "\n", "\t"}

RECURSIVE TrimLeft(_)
TrimLeft(s) ==
  IF s = <<>> THEN <<>>
  ELSE IF IsSpace(Head(s)) THEN TrimLeft(Tail(s)) ELSE s

RECURSIVE TrimRight(_)
TrimRight(s) ==
  IF s = <<>> THEN <<>>
  ELSE IF IsSpace(s[Len(s)]) THEN TrimRight(SubSeq(s, 1, Len(s) - 1)) ELSE s

\* a TrimSpace that removes nothing
KeepSpace(s) == s

\* bytes.TrimSpace / strings.TrimSpace
TrimSpace(s) == TrimRight(TrimLeft(s))

\* index of the first token of s that is in set, 0 when there is none
IndexAny(s, set) ==
  IF \E i \in 1..Len(s) : s[i] \in set
  THEN CHOOSE i \in 1..Len(s) : s[i] \in set /\ \A j \in 1..(i - 1) : s[j] \notin set
  ELSE 0

\* index of the last token of s equal to t, 0 when there is none
LastIndex(s, t) ==
  IF \E i \in 1..Len(s) : s[i] = t
  THEN CHOOSE i \in 1..Len(s) : s[i] = t /\ \A j \in (i + 1)..Len(s) : s[j] # t
  ELSE 0

\* bytes.Cut(line, "="): the text before and after the first "="
Cut(line, sep) ==
  LET i == IndexAny(line, {sep}) IN
  IF i = 0 THEN [before |-> line, after |-> <<>>, found |-> FALSE]
  ELSE [before |-> SubSeq(line, 1, i - 1),
        after  |-> SubSeq(line, i + 1, Len(line)),
        found  |-> TRUE]

\* bufio.Scanner with the default ScanLines: the lines of buf without their
\* line breaks; a last line with no line break counts when it is not empty
RECURSIVE ScanLines(_)
ScanLines(buf) ==
  IF buf = <<>> THEN <<>>
  ELSE LET i == IndexAny(buf, {NL}) IN
       IF i = 0 THEN <<buf>>
       ELSE <<SubSeq(buf, 1, i - 1)>> \o ScanLines(SubSeq(buf, i + 1, Len(buf)))

RECURSIVE Spaces(_)
Spaces(n) == IF n <= 0 THEN <<>> ELSE <<" ">> \o Spaces(n - 1)

RECURSIVE Flatten(_)
Flatten(ss) == IF ss = <<>> THEN <<>> ELSE Head(ss) \o Flatten(Tail(ss))

Max(S) == CHOOSE x \in S : \A y \in S : y <= x

\* a Go map: a function whose domain is the set of its keys
EmptyMap == [k \in {} |-> <<>>]

Put(m, k, v) == [x \in (DOMAIN m) \cup {k} |-> IF x = k THEN v ELSE m[x]]

FieldNames(T) == {T[i].Field : i \in 1..Len(T)}

Tables ==
  [Unit |-> UnitFields, Service |-> ServiceFields,
   Install |-> InstallFields, Socket |-> SocketFields]

\* the key a field of the record type T is read from: the first segment of
\* its `ini` tag
IniKey(T, f) == T[CHOOSE j \in 1..Len(T) : T[j].Field = f].ini[1]

\* the zero value of a section record: every field the empty string
Zero(T) == [f \in FieldNames(T) |-> <<>>]

(***************************************************************************)
(* Field descriptors and the keys to write                                 *)
(***************************************************************************)

\* a comparison no segment satisfies
IsOmitEmptyNever(partial) == FALSE

\* strings.ToLower(partial) == "omitempty"; every annotation of the source
\* spells the modifier in lower case
IsOmitEmpty(partial) == partial = "omitempty"

\* tags(): one descriptor per annotated field, in declaration order; Value
\* is nil (<<>>) when the field holds the empty string
tags(s, T) ==
  [i \in 1..Len(T) |->
    LET partials == T[i].systemd IN
    [Name     |-> partials[1],
     Field    |-> T[i].Field,
     Optional |-> Len(partials) > 1
                  /\ \E j \in 1..Len(partials) : IsOmitEmpty(partials[j]),
     Value    |-> IF s[T[i].Field] # <<>> THEN <<s[T[i].Field]>> ELSE <<>>]]

\* the body of the loop of assignments() for one descriptor: the guard, and
\* the dereference of tag.Value, which faults on a nil pointer
assign(acc, tag) ==
  IF acc.panic THEN acc
  ELSE IF ~tag.Optional \/ tag.Value # <<>>
       THEN IF tag.Value = <<>>
            THEN [acc EXCEPT !.panic = TRUE]
            ELSE [acc EXCEPT !.exports = Put(acc.exports, tag.Name, tag.Value[1])]
       ELSE acc

RECURSIVE assignFrom(_, _, _)
assignFrom(ts, i, acc) ==
  IF i > Len(ts) THEN acc ELSE assignFrom(ts, i + 1, assign(acc, ts[i]))

\* assignments(): the map of emitted key to value, or a nil-pointer fault
assignments(s, T) ==
  assignFrom(tags(s, T), 1, [panic |-> FALSE, exports |-> EmptyMap])

\* a walk that may visit a key of the map more than once
OrdersRepeating(s, T) ==
  LET a == assignments(s, T)
      K == DOMAIN a.exports
      n == Cardinality(K)
  IN IF a.panic THEN {<<>>} ELSE [1..n -> K]

\* the orders in which `range` may walk the map returned by assignments():
\* Go fixes no iteration order for a map
Orders(s, T) ==
  LET a == assignments(s, T)
      K == DOMAIN a.exports
      n == Cardinality(K)
  IN IF a.panic THEN {<<>>}
     ELSE {o \in [1..n -> K] : \A i, j \in 1..n : i # j => o[i] # o[j]}

(***************************************************************************)
(* Section encoding                                                        *)
(***************************************************************************)

\* len(kname): the byte length of a key name
KeyWidth(k) == Len(k)

\* ini File.WriteTo for the file export() builds: the empty DEFAULT section,
\* which writes nothing, and one named section, which is the last one, so
\* that PrettySection adds no line after it.  P holds the package-level
\* settings ini.PrettyFormat, ini.PrettyEqual and ini.PrettySection.
WriteTo(name, keyList, keys, P) ==
  LET isLastSection == TRUE
      equalSign == IF P.PrettyFormat \/ P.PrettyEqual
                   THEN <<" ", "=", " ">> ELSE <<"=">>
      alignLength == IF P.PrettyFormat /\ keyList # <<>>
                     THEN Max({KeyWidth(keyList[i]) : i \in 1..Len(keyList)})
                     ELSE 0
      line(k) == <<k>>
                 \o (IF P.PrettyFormat THEN Spaces(alignLength - KeyWidth(k)) ELSE <<>>)
                 \o equalSign \o keys[k] \o <<NL>>
  IN <<"[", name, "]", NL>>
     \o Flatten([i \in 1..Len(keyList) |-> line(keyList[i])])
     \o (IF P.PrettySection /\ ~isLastSection THEN <<NL>> ELSE <<>>)

\* the scanner loop of export(): a line holding "=" is cut at the first one
\* and both sides are trimmed; any other line is copied
Normalise(line) ==
  LET c == Cut(line, "=") IN
  IF c.found THEN TrimSpace(c.before) \o <<"=">> \o TrimSpace(c.after) \o <<NL>>
  ELSE line \o <<NL>>

\* bufio.MaxScanTokenSize: the most bytes the scanner of export() buffers
MaxScanTokenSize == 65536

\* a run of MaxScanTokenSize bytes of a value, none of them a space, a line
\* break or a delimiter
Blob == "<64KiB>"

\* the number of bytes of a text
RECURSIVE ByteLen(_)
ByteLen(s) ==
  IF s = <<>> THEN 0
  ELSE (IF Head(s) = Blob THEN MaxScanTokenSize ELSE Len(Head(s))) + ByteLen(Tail(s))

\* scanner.Err() after the loop: bufio.ErrTooLong when a line and its line
\* break do not fit the buffer of MaxScanTokenSize bytes
ScanErr(buf) ==
  LET lines == ScanLines(buf)
  IN \E i \in 1..Len(lines) : ByteLen(lines[i]) >= MaxScanTokenSize

\* an export() that writes nothing after the last line
NoTrailer == <<>>

\* output.Write([]byte("\n")): what export() writes after the last line
Trailer == <<NL>>

\* export(): the section's text, a library error, or the fault of
\* assignments().  order is the order `range` walks the map in.
export(s, T, name, order, P) ==
  LET a == assignments(s, T) IN
  IF a.panic THEN [outcome |-> "panic", buf |-> <<>>]
  ELSE IF name = "" \/ \E i \in 1..Len(order) : order[i] = ""
       THEN [outcome |-> "error", buf |-> <<>>]
       ELSE LET buffer == WriteTo(name, order, a.exports, P)
                lines  == ScanLines(buffer)
            IN IF ScanErr(buffer) THEN [outcome |-> "error", buf |-> <<>>]
               ELSE [outcome |-> "ok",
                     buf |-> Flatten([i \in 1..Len(lines) |-> Normalise(lines[i])])
                             \o Trailer]

(***************************************************************************)
(* Daemon.MarshalText and Marshal                                          *)
(***************************************************************************)

\* what Daemon.MarshalText does with the results of its export() calls:
\* a fault of an export ends the call; the errors of the three mandatory
\* sections are joined; the Socket is exported only when it is present and
\* its error is returned alone; else the buffers are read in order and the
\* whole is trimmed
collect(d, unit, service, install, socket) ==
  LET exceptions == SelectSeq(<<unit, service, install>>, LAMBDA r : r.outcome = "error")
      readers == unit.buf \o service.buf \o install.buf
  IN IF unit.outcome = "panic"
        \/ (service.outcome = "panic")
        \/ (install.outcome = "panic")
     THEN [outcome |-> "panic", text |-> <<>>, errors |-> 0]
     ELSE IF Len(exceptions) > 0
     THEN [outcome |-> "error", text |-> <<>>, errors |-> Len(exceptions)]
     ELSE IF d.Socket # <<>>
     THEN IF socket.outcome = "panic" THEN [outcome |-> "panic", text |-> <<>>, errors |-> 0]
          ELSE IF socket.outcome = "error" THEN [outcome |-> "error", text |-> <<>>, errors |-> 1]
          ELSE [outcome |-> "ok", text |-> TrimSpace(readers \o socket.buf), errors |-> 0]
     ELSE [outcome |-> "ok", text |-> TrimSpace(readers), errors |-> 0]

\* a MarshalText that exports the Service before the Unit
MarshalTextServiceFirst(d, o, P) ==
  collect(d,
          export(d.Service, ServiceFields, "Service", o.Service, P),
          export(d.Unit, UnitFields, "Unit", o.Unit, P),
          export(d.Install, InstallFields, "Install", o.Install, P),
          IF d.Socket # <<>>
          THEN export(d.Socket[1], SocketFields, "Socket", o.Socket, P)
          ELSE [outcome |-> "ok", buf |-> <<>>])

\* a MarshalText that leaves out a Socket none of whose fields is set
MarshalTextSkipEmpty(d, o, P) ==
  collect(d,
          export(d.Unit, UnitFields, "Unit", o.Unit, P),
          export(d.Service, ServiceFields, "Service", o.Service, P),
          export(d.Install, InstallFields, "Install", o.Install, P),
          IF d.Socket # <<>> /\ d.Socket[1] # Zero(SocketFields)
          THEN export(d.Socket[1], SocketFields, "Socket", o.Socket, P)
          ELSE [outcome |-> "ok", buf |-> <<>>])

\* Daemon.MarshalText.  o holds the map iteration order of each section.
MarshalText(d, o, P) ==
  collect(d,
          export(d.Unit, UnitFields, "Unit", o.Unit, P),
          export(d.Service, ServiceFields, "Service", o.Service, P),
          export(d.Install, InstallFields, "Install", o.Install, P),
          IF d.Socket # <<>>
          THEN export(d.Socket[1], SocketFields, "Socket", o.Socket, P)
          ELSE [outcome |-> "ok", buf |-> <<>>])

\* a MarshalText that releases the Socket it has encoded
AfterMarshalTextNoSocket(d) == [d EXCEPT !.Socket = <<>>]

\* the receiver after MarshalText: tags() reads each field through
\* reflection, assignments() and export() read the descriptors, and no
\* statement of the call assigns to a field or to the Socket pointer
AfterMarshalText(d) == d

\* the settings Marshal stores in the ini package before it encodes
MarshalSettings ==
  [PrettyEqual |-> FALSE, PrettyFormat |-> FALSE, PrettySection |-> TRUE]

\* the map iteration orders one MarshalText call may see
AllOrders(d) ==
  [Unit    : Orders(d.Unit, UnitFields),
   Service : Orders(d.Service, ServiceFields),
   Install : Orders(d.Install, InstallFields),
   Socket  : IF d.Socket = <<>> THEN {<<>>} ELSE Orders(d.Socket[1], SocketFields)]

(***************************************************************************)
(* Parsing: ini.Load with the default options                              *)
(***************************************************************************)

\* a parsed file: its sections in order, the first being DEFAULT
EmptyFile == <<[name |-> <<"DEFAULT">>, keys |-> EmptyMap]>>

SectionIndex(file, name) ==
  IF \E i \in 1..Len(file) : file[i].name = name
  THEN CHOOSE i \in 1..Len(file) : file[i].name = name
  ELSE 0

\* File.HasSection
HasSection(file, name) == SectionIndex(file, name) # 0

\* File.NewSection: the section of that name, added when the file has none
NewSection(file, name) ==
  IF HasSection(file, name) THEN [file |-> file, index |-> SectionIndex(file, name)]
  ELSE [file |-> Append(file, [name |-> name, keys |-> EmptyMap]), index |-> Len(file) + 1]

\* one line of the input: blank, a comment, a section header or key, delimiter, value
ParseLine(st, raw) ==
  LET line == TrimSpace(raw) IN
  IF st.err \/ line = <<>> \/ line[1] \in {"#", ";"} THEN st
  ELSE IF line[1] = "["
  THEN LET closeIdx == LastIndex(line, "]")
           name == SubSeq(line, 2, closeIdx - 1)
       IN IF closeIdx = 0 THEN [st EXCEPT !.err = TRUE, !.cause = "unclosed section"]
          ELSE IF name = <<>>
          THEN [st EXCEPT !.err = TRUE, !.cause = "empty section name"]
          ELSE LET n == NewSection(st.file, name)
               IN [err |-> FALSE, cause |-> "", file |-> n.file, cur |-> n.index]
  ELSE LET endIdx == IndexAny(line, {"=", ":"})
           kname  == TrimSpace(SubSeq(line, 1, endIdx - 1))
           value  == TrimSpace(SubSeq(line, endIdx + 1, Len(line)))
       IN IF endIdx = 0
          THEN [st EXCEPT !.err = TRUE, !.cause = "key-value delimiter not found"]
          ELSE IF kname = <<>>
          THEN [st EXCEPT !.err = TRUE, !.cause = "empty key name"]
          ELSE [st EXCEPT !.file[st.cur].keys = Put(@, kname, value)]

RECURSIVE ParseFrom(_, _, _)
ParseFrom(lines, i, st) ==
  IF i > Len(lines) THEN st ELSE ParseFrom(lines, i + 1, ParseLine(st, lines[i]))

\* ini.Load(stream): the parsed file, or an error and what the library says
\* it is
Load(stream) ==
  ParseFrom(ScanLines(stream), 1,
            [err |-> FALSE, cause |-> "", file |-> EmptyFile, cur |-> 1])

\* File.Section(name): the named section; when the file has none, the
\* library adds an empty one and returns it, so the result is never nil
Section(file, name) ==
  LET n == NewSection(file, name) IN
  [file |-> n.file, section |-> <<n.file[n.index]>>]

\* Section.KeysHash()
KeysHash(section) == section.keys

\* a MapTo that stores no value in the target
MapToNothing(section, T, target) ==
  IF target = <<>> THEN [outcome |-> "panic", cause |-> "", v |-> <<>>]
  ELSE [outcome |-> "ok", cause |-> "", v |-> target]

\* Section.MapTo(target): every field whose `ini` name is a key of the
\* section takes that key's value; a string field cannot fail to convert.
\* target is a pointer; reflection on a nil pointer faults.
MapTo(section, T, target) ==
  IF target = <<>> THEN [outcome |-> "panic", cause |-> "", v |-> <<>>]
  ELSE [outcome |-> "ok", cause |-> "",
        v |-> <<[f \in DOMAIN target[1] |->
                  LET k == <<IniKey(T, f)>>
                  IN IF k \in DOMAIN section.keys /\ section.keys[k] # <<>>
                     THEN section.keys[k] ELSE target[1][f]]>>]

(***************************************************************************)
(* Unmarshal and Daemon.UnmarshalText                                      *)
(***************************************************************************)

\* error texts that leave out what the error is about
ErrorfPlain(kind, section, cause) == <<"unable to unmarshal", cause>>

\* the text of the error each fmt.Errorf call builds; %w is replaced by the
\* text of the library's error
Errorf(kind, section, cause) ==
  CASE kind = "parse" -> <<"unable to unmarshal daemon file: ", cause>>
    [] kind = "missing" -> <<"invalid [", section, "] systemd section">>
    [] kind = "malformed" ->
         <<"unable to unmarshal [", section, "] systemd section: ", cause>>

\* an error return: no record, the error's text, and the library error that
\* errors.Unwrap gives back, which only a %w verb stores
Failure(kind, section, cause) ==
  [outcome |-> "error", kind |-> kind, section |-> section, daemon |-> <<>>,
   message |-> Errorf(kind, section, cause),
   wraps |-> IF kind = "missing" THEN "" ELSE cause]

Fault ==
  [outcome |-> "panic", kind |-> "none", section |-> "", daemon |-> <<>>,
   message |-> <<>>, wraps |-> ""]

Success(d) ==
  [outcome |-> "ok", kind |-> "none", section |-> "", daemon |-> <<d>>,
   message |-> <<>>, wraps |-> ""]

\* a declaration in which the Socket is allocated: socket := new(Socket)
newSocket == <<Zero(SocketFields)>>

\* var socket *Socket: the declared pointer, nil, which no line assigns
varSocket == <<>>

\* Unmarshal(stream)
Unmarshal(stream) ==
  LET l  == Load(stream)
      su == Section(l.file, <<"Unit">>)
      unit == MapTo(su.section[1], UnitFields, <<Zero(UnitFields)>>)
      ss == Section(su.file, <<"Service">>)
      service == MapTo(ss.section[1], ServiceFields, <<Zero(ServiceFields)>>)
      si == Section(ss.file, <<"Install">>)
      install == MapTo(si.section[1], InstallFields, <<Zero(InstallFields)>>)
      sk == Section(si.file, <<"Socket">>)
      socket == varSocket
      mapped == MapTo(sk.section[1], SocketFields, socket)
  IN IF l.err THEN Failure("parse", "", l.cause)
     ELSE IF su.section = <<>> THEN Failure("missing", "Unit", "")
     ELSE IF unit.outcome = "error" THEN Failure("malformed", "Unit", unit.cause)
     ELSE IF ss.section = <<>> THEN Failure("missing", "Service", "")
     ELSE IF service.outcome = "error" THEN Failure("malformed", "Service", service.cause)
     ELSE IF si.section = <<>> THEN Failure("missing", "Install", "")
     ELSE IF install.outcome = "error" THEN Failure("malformed", "Install", install.cause)
     ELSE IF HasSection(sk.file, <<"Socket">>) /\ sk.section # <<>>
             /\ Cardinality(DOMAIN KeysHash(sk.section[1])) > 0
          THEN IF mapped.outcome = "panic" THEN Fault
               ELSE IF mapped.outcome = "error" THEN Failure("malformed", "Socket", mapped.cause)
               ELSE Success([Unit |-> unit.v[1], Service |-> service.v[1],
                             Install |-> install.v[1], Socket |-> socket])
          ELSE Success([Unit |-> unit.v[1], Service |-> service.v[1],
                        Install |-> install.v[1], Socket |-> socket])

\* the zero value of a Daemon
ZeroDaemon ==
  [Unit |-> Zero(UnitFields), Service |-> Zero(ServiceFields),
   Install |-> Zero(InstallFields), Socket |-> <<>>]

\* an UnmarshalText that clears the receiver before it parses
UnmarshalTextEager(d, stream) ==
  LET r == Unmarshal(stream) IN
  IF r.outcome = "ok" THEN r ELSE [r EXCEPT !.daemon = <<ZeroDaemon>>]

\* an UnmarshalText that maps the sections into the receiver's own fields
\* and keeps its Socket
UnmarshalTextInto(d, stream) ==
  LET r == Unmarshal(stream) IN
  IF r.outcome # "ok" THEN [r EXCEPT !.daemon = <<d>>]
  ELSE [r EXCEPT !.daemon =
          <<[Unit    |-> [f \in DOMAIN d.Unit |->
                           IF r.daemon[1].Unit[f] # <<>> THEN r.daemon[1].Unit[f] ELSE d.Unit[f]],
             Service |-> [f \in DOMAIN d.Service |->
                           IF r.daemon[1].Service[f] # <<>> THEN r.daemon[1].Service[f] ELSE d.Service[f]],
             Install |-> [f \in DOMAIN d.Install |->
                           IF r.daemon[1].Install[f] # <<>> THEN r.daemon[1].Install[f] ELSE d.Install[f]],
             Socket  |-> d.Socket]>>]

\* Daemon.UnmarshalText(stream): the error, and the receiver after the call
UnmarshalText(d, stream) ==
  LET l  == Load(stream)
      su == Section(l.file, <<"Unit">>)
      unit == MapTo(su.section[1], UnitFields, <<Zero(UnitFields)>>)
      ss == Section(su.file, <<"Service">>)
      service == MapTo(ss.section[1], ServiceFields, <<Zero(ServiceFields)>>)
      si == Section(ss.file, <<"Install">>)
      install == MapTo(si.section[1], InstallFields, <<Zero(InstallFields)>>)
      sk == Section(si.file, <<"Socket">>)
      socket == <<>>
      mapped == MapTo(sk.section[1], SocketFields, socket)
      instance == [Unit |-> unit.v[1], Service |-> service.v[1],
                   Install |-> install.v[1], Socket |-> socket]
  IN IF l.err THEN [Failure("parse", "", l.cause) EXCEPT !.daemon = <<d>>]
     ELSE IF su.section = <<>> THEN [Failure("missing", "Unit", "") EXCEPT !.daemon = <<d>>]
     ELSE IF unit.outcome = "error" THEN [Failure("malformed", "Unit", unit.cause) EXCEPT !.daemon = <<d>>]
     ELSE IF ss.section = <<>> THEN [Failure("missing", "Service", "") EXCEPT !.daemon = <<d>>]
     ELSE IF service.outcome = "error" THEN [Failure("malformed", "Service", service.cause) EXCEPT !.daemon = <<d>>]
     ELSE IF si.section = <<>> THEN [Failure("missing", "Install", "") EXCEPT !.daemon = <<d>>]
     ELSE IF install.outcome = "error" THEN [Failure("malformed", "Install", install.cause) EXCEPT !.daemon = <<d>>]
     ELSE IF HasSection(sk.file, <<"Socket">>) /\ sk.section # <<>>
             /\ Cardinality(DOMAIN KeysHash(sk.section[1])) > 0
          THEN IF mapped.outcome = "panic" THEN [Fault EXCEPT !.daemon = <<d>>]
               ELSE IF mapped.outcome = "error"
                    THEN [Failure("malformed", "Socket", mapped.cause) EXCEPT !.daemon = <<d>>]
                    ELSE Success(instance)
          ELSE Success(instance)

(***************************************************************************)
(* The inputs a caller passes                                              *)
(***************************************************************************)

\* most optional fields set at once in a record built from FocusSlots
MaxSet == 2

\* most key lines under one section header of an input text
MaxBody == 1

SectionNames == <<"Unit", "Service", "Install", "Socket">>

\* every declared field, as <<section, field>>
Slots ==
  UNION {{<<SectionNames[n], f>> : f \in FieldNames(Tables[SectionNames[n]])} : n \in 1..4}

\* the smallest record with both required fields set
Base ==
  [Unit    |-> [Zero(UnitFields) EXCEPT !["Description"] = <<"a">>],
   Service |-> [Zero(ServiceFields) EXCEPT !["ExecStart"] = <<"a">>],
   Install |-> Zero(InstallFields),
   Socket  |-> <<>>]

\* record r with the field of one slot set to v; setting a field of the
\* Socket allocates the Socket
With(r, slot, v) ==
  IF slot[1] = "Socket"
  THEN [r EXCEPT !.Socket = <<[(IF @ = <<>> THEN Zero(SocketFields) ELSE @[1])
                                EXCEPT ![slot[2]] = v]>>]
  ELSE [r EXCEPT ![slot[1]][slot[2]] = v]

RECURSIVE WithAll(_, _, _)
WithAll(r, slots, vals) ==
  IF slots = {} THEN r
  ELSE LET s == CHOOSE x \in slots : TRUE
       IN WithAll(With(r, s, vals[s]), slots \ {s}, vals)

\* records that differ from Base in one field, any declared field, which
\* holds the empty string or a value with a space inside
SingleValues == {<<>>, <<"a", " ", "b">>}

Singles == {With(Base, s, v) : s \in Slots, v \in SingleValues}

FocusSlots ==
  {<<"Unit", "Wants">>, <<"Service", "TimeoutSec">>, <<"Service", "TimeoutStopSec">>,
   <<"Install", "WantedBy">>, <<"Socket", "ListenStream">>}

ComboValues == {<<"b">>, <<"a", "=", "b">>}

\* records with up to MaxSet of the FocusSlots set
Combos ==
  UNION {{WithAll(Base, S, vals) : vals \in [S -> ComboValues]} :
         S \in {X \in SUBSET FocusSlots : Cardinality(X) <= MaxSet}}

\* one field of each section, to hold a value that fills the scanner's buffer
LongSlots ==
  {<<"Unit", "Description">>, <<"Service", "ExecStart">>,
   <<"Install", "WantedBy">>, <<"Socket", "ListenStream">>}

LongValues == {<<"a">>, <<Blob>>}

\* records in which some of the LongSlots hold a short or an oversized value
Oversized ==
  UNION {{WithAll(Base, S, vals) : vals \in [S -> LongValues]} : S \in SUBSET LongSlots}

\* the lines an input text may hold under each header; "Bogus" is a key no
\* record declares and "Other" a section no Daemon has
BodyLines ==
  [Unit    |-> <<<<"Description", "=", "a">>, <<"Bogus", " ", "=", " ", "b">>>>,
   Service |-> <<<<"ExecStart", "=", "a", "=", "b">>, <<"TimeoutStopSec", "=", "b">>>>,
   Install |-> <<<<"WantedBy", ":", "a">>>>,
   Socket  |-> <<<<"ListenStream", "=", "a">>, <<"Bogus", "=", "a">>>>,
   Other   |-> <<<<"Key", "=", "a">>>>]

BlockNames == <<"Unit", "Service", "Install", "Socket", "Other">>

\* the lines of seq whose index is in I, in the order of seq
RECURSIVE Pick(_, _, _)
Pick(seq, I, i) ==
  IF i > Len(seq) THEN <<>>
  ELSE (IF i \in I THEN <<seq[i]>> ELSE <<>>) \o Pick(seq, I, i + 1)

\* the bodies of one section: up to MaxBody of its lines
Bodies(name) ==
  {Pick(BodyLines[name], I, 1) :
     I \in {X \in SUBSET (1..Len(BodyLines[name])) : Cardinality(X) <= MaxBody}}

Block(name, body) ==
  <<"[", name, "]", NL>> \o Flatten([i \in 1..Len(body) |-> body[i] \o <<NL>>]) \o <<NL>>

\* a line with no delimiter, which the parser rejects
BadLine == <<"garbage", NL>>

\* a choice of sections, each with one of its bodies
Layouts ==
  UNION {{f \in [S -> UNION {Bodies(BlockNames[n]) : n \in 1..5}] :
            \A x \in S : f[x] \in Bodies(x)} :
         S \in SUBSET {BlockNames[n] : n \in 1..5}}

\* the text of a layout: its sections in the order of BlockNames
Document(c) ==
  Flatten([n \in 1..5 |->
            IF BlockNames[n] \in DOMAIN c
            THEN Block(BlockNames[n], c[BlockNames[n]]) ELSE <<>>])

\* input texts: every layout, and the layouts of at most one section with a
\* rejected line at the end
TextInputs ==
  {Document(c) : c \in Layouts}
  \cup {Document(c) \o BadLine : c \in {x \in Layouts : Cardinality(DOMAIN x) <= 1}}

\* the record UnmarshalText is called on: one with fields the texts do not
\* set and with a Socket
Receiver ==
  With(With(Base, <<"Socket", "ListenStream">>, <<"b">>), <<"Unit", "After">>, <<"b">>)

\* the values of ini.PrettyFormat, ini.PrettyEqual and ini.PrettySection
Settings == [PrettyFormat : BOOLEAN, PrettyEqual : BOOLEAN, PrettySection : BOOLEAN]

\* what the ini package declares
DefaultSettings == [PrettyFormat |-> TRUE, PrettyEqual |-> FALSE, PrettySection |-> TRUE]

(***************************************************************************)
(* State                                                                   *)
(***************************************************************************)
VARIABLES
  d,        \* the caller's Daemon
  stream,   \* the text the caller holds
  ini,      \* the package-level settings of the ini library
  ret,      \* what the last call returned
  marshalled, \* whether stream is the text a Marshal call returned for d
  procs     \* the calls in flight at the same time, when callers run concurrently

vars == <<d, stream, ini, ret, marshalled, procs>>

NoCall ==
  [op |-> "none", outcome |-> "none", text |-> <<>>, daemon |-> <<>>,
   kind |-> "none", section |-> "", errors |-> 0, message |-> <<>>, wraps |-> ""]

\* a caller marshals one of its records, under any settings of the library
\* for the records built from FocusSlots, or parses one of its texts
Init ==
  /\ \/ d \in Singles /\ stream = <<>> /\ ini = DefaultSettings
     \/ d \in Combos /\ stream = <<>> /\ ini \in Settings
     \/ d \in Oversized /\ stream = <<>> /\ ini = DefaultSettings
     \/ d = Receiver /\ stream \in TextInputs /\ ini = DefaultSettings
  /\ ret = NoCall
  /\ marshalled = FALSE
  /\ procs = <<>>

\* a fault ends the program
Running == ret.outcome # "panic"

\* content, e := systemd.Marshal(d)
CallMarshal ==
  /\ Running
  /\ \E o \in AllOrders(d) :
       LET r == MarshalText(d, o, MarshalSettings) IN
       ret' = [NoCall EXCEPT !.op = "Marshal", !.outcome = r.outcome,
                             !.text = r.text, !.errors = r.errors]
  /\ ini' = MarshalSettings
  /\ d' = AfterMarshalText(d)
  /\ UNCHANGED <<stream, marshalled, procs>>

\* content, e := d.MarshalText()
CallMarshalText ==
  /\ Running
  /\ \E o \in AllOrders(d) :
       LET r == MarshalText(d, o, ini) IN
       ret' = [NoCall EXCEPT !.op = "MarshalText", !.outcome = r.outcome,
                             !.text = r.text, !.errors = r.errors]
  /\ d' = AfterMarshalText(d)
  /\ UNCHANGED <<stream, ini, marshalled, procs>>

\* instance, e := systemd.Unmarshal(stream)
CallUnmarshal ==
  /\ Running
  /\ LET r == Unmarshal(stream) IN
     ret' = [NoCall EXCEPT !.op = "Unmarshal", !.outcome = r.outcome,
                           !.daemon = r.daemon, !.kind = r.kind, !.section = r.section,
                           !.message = r.message, !.wraps = r.wraps]
  /\ UNCHANGED <<d, stream, ini, marshalled, procs>>

\* e := d.UnmarshalText(stream)
CallUnmarshalText ==
  /\ Running
  /\ LET r == UnmarshalText(d, stream) IN
     /\ ret' = [NoCall EXCEPT !.op = "UnmarshalText", !.outcome = r.outcome,
                              !.kind = r.kind, !.section = r.section,
                              !.message = r.message, !.wraps = r.wraps]
     /\ d' = r.daemon[1]
     /\ marshalled' = (marshalled /\ r.daemon[1] = d)
  /\ UNCHANGED <<stream, ini, procs>>

\* the caller keeps the text Marshal returned, to parse it
PassText ==
  /\ ret.op = "Marshal"
  /\ ret.outcome = "ok"
  /\ stream' = ret.text
  /\ marshalled' = TRUE
  /\ UNCHANGED <<d, ini, ret, procs>>

Next ==
  \/ CallMarshal
  \/ CallMarshalText
  \/ CallUnmarshal
  \/ CallUnmarshalText
  \/ PassText

Spec == Init /\ [][Next]_vars

(***************************************************************************)
(* Concurrent callers: each goroutine runs one call, line by line.  The    *)
(* settings of the ini package are package-level variables, shared by all  *)
(* goroutines of the program.                                              *)
(***************************************************************************)

\* goroutines that call into the package at the same time
NumCallers == 2

Callers == 1..NumCallers

Operations == {"Marshal", "MarshalText", "Unmarshal"}

\* a call that has been made and has not run a line yet
Start(op) ==
  [op     |-> op,
   pc     |-> CASE op = "Marshal" -> "PrettyEqual"
                [] op = "MarshalText" -> "export"
                [] op = "Unmarshal" -> "decode",
   bufs   |-> <<>>,
   read   |-> FALSE,
   wrote  |-> FALSE,
   result |-> NoCall]

\* the record the concurrent callers marshal and the text they parse
ConcInputs == {Base, Receiver}

ConcText ==
  Block("Unit", <<BodyLines.Unit[1]>>) \o Block("Service", <<BodyLines.Service[1]>>)
  \o Block("Install", <<>>)

InitConc ==
  /\ d \in ConcInputs
  /\ stream = ConcText
  /\ ini = DefaultSettings
  /\ ret = NoCall
  /\ marshalled = FALSE
  /\ procs \in {[p \in Callers |-> Start(ops[p])] : ops \in [Callers -> Operations]}

\* ini.PrettyEqual = false
StorePrettyEqual(p) ==
  /\ procs[p].pc = "PrettyEqual"
  /\ ini' = [ini EXCEPT !.PrettyEqual = MarshalSettings.PrettyEqual]
  /\ procs' = [procs EXCEPT ![p].pc = "PrettyFormat", ![p].wrote = TRUE]
  /\ UNCHANGED <<d, stream, ret, marshalled>>

\* ini.PrettyFormat = false
StorePrettyFormat(p) ==
  /\ procs[p].pc = "PrettyFormat"
  /\ ini' = [ini EXCEPT !.PrettyFormat = MarshalSettings.PrettyFormat]
  /\ procs' = [procs EXCEPT ![p].pc = "PrettySection", ![p].wrote = TRUE]
  /\ UNCHANGED <<d, stream, ret, marshalled>>

\* ini.PrettySection = true; then the call of MarshalText
StorePrettySection(p) ==
  /\ procs[p].pc = "PrettySection"
  /\ ini' = [ini EXCEPT !.PrettySection = MarshalSettings.PrettySection]
  /\ procs' = [procs EXCEPT ![p].pc = "export", ![p].wrote = TRUE]
  /\ UNCHANGED <<d, stream, ret, marshalled>>

\* the next export() of MarshalText, whose WriteTo reads the settings as
\* they are at that moment
ExportSection(p) ==
  /\ procs[p].pc = "export"
  /\ LET k == Len(procs[p].bufs) + 1
         name == SectionNames[k]
         s == IF k = 4 THEN d.Socket[1] ELSE d[name]
     IN \E order \in Orders(s, Tables[name]) :
          LET r == export(s, Tables[name], name, order, ini)
              bufs == Append(procs[p].bufs, r)
              more == k < 3 \/ (/\ k = 3
                                /\ d.Socket # <<>>
                                /\ \A i \in 1..3 : bufs[i].outcome = "ok")
          IN procs' = [procs EXCEPT
               ![p].bufs = bufs,
               ![p].read = TRUE,
               ![p].pc = IF r.outcome = "panic" THEN "done"
                         ELSE IF more THEN "export" ELSE "return",
               ![p].result = IF r.outcome = "panic"
                             THEN [NoCall EXCEPT !.op = procs[p].op, !.outcome = "panic"]
                             ELSE @]
  /\ UNCHANGED <<d, stream, ini, ret, marshalled>>

\* the rest of MarshalText: the errors, or the trimmed text
ReturnText(p) ==
  /\ procs[p].pc = "return"
  /\ LET b == procs[p].bufs
         r == collect(d, b[1], b[2], b[3],
                      IF Len(b) = 4 THEN b[4] ELSE [outcome |-> "ok", buf |-> <<>>])
     IN procs' = [procs EXCEPT
          ![p].pc = "done",
          ![p].result = [NoCall EXCEPT !.op = procs[p].op, !.outcome = r.outcome,
                                       !.text = r.text, !.errors = r.errors]]
  /\ UNCHANGED <<d, stream, ini, ret, marshalled>>

\* Unmarshal(stream), which uses no package-level variable that is written
Decode(p) ==
  /\ procs[p].pc = "decode"
  /\ LET r == Unmarshal(stream)
     IN procs' = [procs EXCEPT
          ![p].pc = "done",
          ![p].result = [NoCall EXCEPT !.op = "Unmarshal", !.outcome = r.outcome,
                                       !.daemon = r.daemon, !.kind = r.kind,
                                       !.section = r.section,
                                       !.message = r.message, !.wraps = r.wraps]]
  /\ UNCHANGED <<d, stream, ini, ret, marshalled>>

NextConc ==
  \/ \E p \in Callers : StorePrettyEqual(p)
  \/ \E p \in Callers : StorePrettyFormat(p)
  \/ \E p \in Callers : StorePrettySection(p)
  \/ \E p \in Callers : ExportSection(p)
  \/ \E p \in Callers : ReturnText(p)
  \/ \E p \in Callers : Decode(p)

SpecConc == InitConc /\ [][NextConc]_vars

(***************************************************************************)
(* The errors of Unmarshal: each error return of the function, applied to  *)
(* a section name it is written for and to an error the library may hand   *)
(* it.                                                                     *)
(***************************************************************************)

\* the errors of ini.Load, and one of Section.MapTo
LibraryErrors ==
  {"unclosed section", "empty section name", "key-value delimiter not found",
   "empty key name", "error mapping field"}

\* what Unmarshal returns with the error r
Returned(r) ==
  [NoCall EXCEPT !.op = "Unmarshal", !.outcome = r.outcome, !.daemon = r.daemon,
                 !.kind = r.kind, !.section = r.section,
                 !.message = r.message, !.wraps = r.wraps]

InitErr ==
  /\ d = Base
  /\ stream \in TextInputs
  /\ ini = DefaultSettings
  /\ ret = NoCall
  /\ marshalled = FALSE
  /\ procs = <<>>

\* return nil, fmt.Errorf("unable to unmarshal daemon file: %w", e)
ReturnParseError ==
  /\ Load(stream).err
  /\ ret' = Returned(Failure("parse", "", Load(stream).cause))
  /\ UNCHANGED <<d, stream, ini, marshalled, procs>>

\* return nil, fmt.Errorf("invalid [Unit] systemd section"), and the same
\* for Service and Install
ReturnMissingError ==
  /\ \E i \in 1..3 : ret' = Returned(Failure("missing", SectionNames[i], ""))
  /\ UNCHANGED <<d, stream, ini, marshalled, procs>>

\* return nil, fmt.Errorf("unable to unmarshal [Unit] systemd section: %w", e),
\* and the same for Service, Install and Socket
ReturnMalformedError ==
  /\ \E i \in 1..4, e \in LibraryErrors :
        ret' = Returned(Failure("malformed", SectionNames[i], e))
  /\ UNCHANGED <<d, stream, ini, marshalled, procs>>

NextErr ==
  \/ ReturnParseError
  \/ ReturnMissingError
  \/ ReturnMalformedError

SpecErr == InitErr /\ [][NextErr]_vars

(***************************************************************************)
(* Reading a text and a record, to state the properties                    *)
(***************************************************************************)

IsHeaderLine(line) == Len(line) >= 2 /\ line[1] = "[" /\ line[Len(line)] = "]"

\* the names in the headers of a text, in the order of the text
HeaderNames(text) ==
  LET hs == SelectSeq(ScanLines(text), IsHeaderLine)
  IN [i \in 1..Len(hs) |-> SubSeq(hs[i], 2, Len(hs[i]) - 1)]

\* the key lines of a text between the header [name] and the next header,
\* each cut at its first "="
KeyLines(text, name) ==
  LET ls == ScanLines(text)
      under(i) == \E h \in 1..(i - 1) :
                    /\ ls[h] = <<"[", name, "]">>
                    /\ \A j \in (h + 1)..(i - 1) : ~IsHeaderLine(ls[j])
  IN {[key |-> Cut(ls[i], "=").before, value |-> Cut(ls[i], "=").after] :
        i \in {j \in 1..Len(ls) : ls[j] # <<>> /\ ~IsHeaderLine(ls[j]) /\ under(j)}}

\* the key field f of the record type T is written under
EmittedKey(T, f) == T[CHOOSE j \in 1..Len(T) : T[j].Field = f].systemd[1]

\* whether field f of the record type T is annotated omitempty
IsOptional(T, f) ==
  LET partials == T[CHOOSE j \in 1..Len(T) : T[j].Field = f].systemd
  IN \E j \in 2..Len(partials) : IsOmitEmpty(partials[j])

Mandatory == <<"Unit", "Service", "Install">>

Parses(text) == ~Load(text).err

Has(text, name) == HasSection(Load(text).file, <<name>>)

\* a text that parses and has the three mandatory sections
Complete(text) == Parses(text) /\ \A i \in 1..3 : Has(text, Mandatory[i])

\* the keys of the [Socket] section of a text, with their values
SocketKeys(text) == KeysHash(Section(Load(text).file, <<"Socket">>).section[1])

\* the sections of a record that are present, by name
Present(r) == {"Unit", "Service", "Install"} \cup (IF r.Socket # <<>> THEN {"Socket"} ELSE {})

SectionOf(r, n) == IF n = "Socket" THEN r.Socket[1] ELSE r[n]

(***************************************************************************)
(* Properties                                                              *)
(***************************************************************************)

\* C1: when Unmarshal is called on the text Marshal returned for a record
\* with both required fields set, here one without a Socket, it succeeds
\* and every field of Unit, Service and Install in the returned record,
\* TimeoutSec and TimeoutStopSec included, has the value it has in the
\* original: a set field the same value, an empty field the empty string.
C1_RoundTrip ==
  (/\ marshalled
   /\ ret.op = "Unmarshal"
   /\ d.Unit.Description # <<>>
   /\ d.Service.ExecStart # <<>>
   /\ d.Socket = <<>>)
  => /\ ret.outcome = "ok"
     /\ \A i \in 1..3 :
          \A f \in FieldNames(Tables[Mandatory[i]]) :
            ret.daemon[1][Mandatory[i]][f] = d[Mandatory[i]][f]

\* C2: the text Marshal returns for any record, one with an empty required
\* field included, has a Description line in [Unit] and an ExecStart line in
\* [Service], each with the field's value, which may be empty.
C2_RequiredIncluded ==
  ret.op = "Marshal"
  => /\ ret.outcome = "ok"
     /\ \E l \in KeyLines(ret.text, "Unit") :
          l.key = <<"Description">> /\ l.value = d.Unit.Description
     /\ \E l \in KeyLines(ret.text, "Service") :
          l.key = <<"ExecStart">> /\ l.value = d.Service.ExecStart

\* C3: Unmarshal and UnmarshalText of a text that parses and lacks a
\* mandatory section return a missing-section error that names a section
\* the text lacks, and no record.
C3_MissingSection ==
  (/\ ret.op \in {"Unmarshal", "UnmarshalText"}
   /\ Parses(stream)
   /\ \E i \in 1..3 : ~Has(stream, Mandatory[i]))
  => /\ ret.outcome = "error"
     /\ ret.kind = "missing"
     /\ \E i \in 1..3 : ret.section = Mandatory[i] /\ ~Has(stream, Mandatory[i])
     /\ ret.daemon = <<>>

\* C4: Unmarshal of a text with the three mandatory sections and a [Socket]
\* section that has a key never faults: it returns a record whose Socket is
\* present and holds the values of the section's keys, or the error of the
\* [Socket] projection.
C4_PopulatedSocket ==
  (/\ ret.op = "Unmarshal"
   /\ Complete(stream)
   /\ Has(stream, "Socket")
   /\ DOMAIN SocketKeys(stream) # {})
  => \/ ret.outcome = "error" /\ ret.kind = "malformed" /\ ret.section = "Socket"
     \/ /\ ret.outcome = "ok"
        /\ ret.daemon[1].Socket # <<>>
        /\ \A f \in FieldNames(SocketFields) :
             LET k == <<IniKey(SocketFields, f)>>
             IN k \in DOMAIN SocketKeys(stream)
                => ret.daemon[1].Socket[1][f] = SocketKeys(stream)[k]

\* C5: Unmarshal of a text with the three mandatory sections and no [Socket]
\* section, or a [Socket] section without a key, returns no error and a
\* record whose Socket is nil.
C5_AbsentSocket ==
  (/\ ret.op = "Unmarshal"
   /\ Complete(stream)
   /\ (~Has(stream, "Socket") \/ DOMAIN SocketKeys(stream) = {}))
  => /\ ret.outcome = "ok"
     /\ ret.daemon[1].Socket = <<>>

\* Unmarshal has returned for a text whose [Socket] section has no key
C5_Witness ==
  /\ ret.op = "Unmarshal"
  /\ Complete(stream)
  /\ Has(stream, "Socket")
  /\ DOMAIN SocketKeys(stream) = {}
  /\ ret.outcome = "ok"

\* C6: in the text Marshal returns, the section of an optional field that is
\* empty has no line whose key is that field's emitted key; this is so for
\* Service.TimeoutStopSec also when Service.TimeoutSec is set.
C6_Omission ==
  (ret.op = "Marshal" /\ ret.outcome = "ok")
  => \A n \in Present(d) :
       \A f \in FieldNames(Tables[n]) :
         (IsOptional(Tables[n], f) /\ SectionOf(d, n)[f] = <<>>)
         => \A l \in KeyLines(ret.text, n) : l.key # <<EmittedKey(Tables[n], f)>>

\* C7: a call of Marshal or Unmarshal ends with a result and no error, or
\* with an error and no result: it does not fault, and an error comes with
\* no text and no record.
C7_TwoOutcomes ==
  ret.op \in {"Marshal", "Unmarshal"}
  => \/ /\ ret.outcome = "ok"
        /\ ret.errors = 0
        /\ ret.op = "Unmarshal" => ret.daemon # <<>>
     \/ /\ ret.outcome = "error"
        /\ ret.text = <<>>
        /\ ret.daemon = <<>>

C9_NoSharedWrite ==
  \A p, q \in DOMAIN procs :
    p # q => ~(procs[p].wrote /\ (procs[q].read \/ procs[q].wrote))

\* the text a concurrent Marshal or MarshalText call returns is one the call
\* returns when it runs alone
ConcResultAlone ==
  \A p \in DOMAIN procs :
    (procs[p].pc = "done" /\ procs[p].op \in {"Marshal", "MarshalText"})
    => \E o \in AllOrders(d) :
         LET r == MarshalText(d, o, MarshalSettings)
         IN procs[p].result.outcome = r.outcome /\ procs[p].result.text = r.text

\* C10: a Marshal call that follows a Marshal call on the same record
\* returns the same text, the key lines of each section in the same order.
C10_Stable ==
  [][(/\ ret.op = "Marshal" /\ ret.outcome = "ok"
      /\ ret'.op = "Marshal" /\ ret'.outcome = "ok"
      /\ d' = d)
     => ret'.text = ret.text]_vars

\* C11: Marshal of a record with both required fields set, any optional
\* fields set and no Socket returns no error and a text that is not empty.
C11_MarshalSucceeds ==
  (/\ ret.op = "Marshal"
   /\ d.Unit.Description # <<>>
   /\ d.Service.ExecStart # <<>>
   /\ d.Socket = <<>>)
  => /\ ret.outcome = "ok"
     /\ ret.text # <<>>

\* the lines of a text that are neither blank nor a header
PlainLines(text) ==
  LET ls == ScanLines(text)
  IN {ls[i] : i \in {j \in 1..Len(ls) : ls[j] # <<>> /\ ~IsHeaderLine(ls[j])}}

\* C12: every key line of the text Marshal returns is key, one space, "=",
\* one space, value: one space and no more on each side of the first "=".
C12_SpacedDelimiter ==
  (ret.op = "Marshal" /\ ret.outcome = "ok")
  => \A line \in PlainLines(ret.text) :
       LET i == IndexAny(line, {"="})
       IN /\ i >= 3
          /\ line[i - 1] = " "
          /\ ~IsSpace(line[i - 2])
          /\ Len(line) >= i + 1
          /\ line[i + 1] = " "
          /\ Len(line) >= i + 2 => ~IsSpace(line[i + 2])

\* the sections of a record whose export() returns an error
Failing(r) ==
  {n \in Present(r) :
     LET o == CHOOSE x \in Orders(SectionOf(r, n), Tables[n]) : TRUE
     IN export(SectionOf(r, n), Tables[n], n, o, MarshalSettings).outcome = "error"}

\* C13: when the export of one or more sections of a record fails, the
\* Socket's included, Marshal returns no text and one error that joins the
\* error of every failing section.
C13_Aggregates ==
  (ret.op = "Marshal" /\ ret.outcome # "panic" /\ Failing(d) # {})
  => /\ ret.outcome = "error"
     /\ ret.text = <<>>
     /\ ret.errors = Cardinality(Failing(d))

\* the stages of Unmarshal, in the order of the code
StageOrder == <<"parse", "Unit", "Service", "Install", "Socket">>

\* whether a text has no header [name]
Lacks(text, name) ==
  \A i \in 1..Len(HeaderNames(text)) : HeaderNames(text)[i] # <<name>>

\* the stages at which a text has a problem: it does not parse, or it has
\* no header of a mandatory section
Problems(text) ==
  (IF Parses(text) THEN {} ELSE {"parse"})
  \cup {Mandatory[i] : i \in {j \in 1..3 : Lacks(text, Mandatory[j])}}

\* the stage an error return is about
StageOf(r) == IF r.kind = "parse" THEN "parse" ELSE r.section

\* C14: for a text with several problems Unmarshal returns the error of the
\* earliest stage, in the order parse, Unit, Service, Install, Socket, that
\* has one, and nothing of a later stage.
C14_FailFast ==
  (ret.op = "Unmarshal" /\ Cardinality(Problems(stream)) >= 2)
  => /\ ret.outcome = "error"
     /\ \E i \in 1..Len(StageOrder) :
          /\ StageOrder[i] \in Problems(stream)
          /\ \A j \in 1..(i - 1) : StageOrder[j] \notin Problems(stream)
          /\ StageOf(ret) = StageOrder[i]

\* a text that does not parse gives the parse error, whatever its sections
\* hold: no section is looked at after ini.Load failed
ParseFailsFirst ==
  (ret.op \in {"Unmarshal", "UnmarshalText"} /\ ~Parses(stream))
  => ret.outcome = "error" /\ ret.kind = "parse"

\* the kind and section of every error return of Unmarshal
ErrorSites ==
  {<<"parse", "">>}
  \cup {<<"missing", SectionNames[i]>> : i \in 1..3}
  \cup {<<"malformed", SectionNames[i]>> : i \in 1..4}

C16_UniqueKeys ==
  \A n \in Present(d) :
    LET ts == tags(SectionOf(d, n), Tables[n])
    IN \A i \in 1..Len(ts) :
         /\ ts[i].Name # ""
         /\ \A j \in 1..Len(ts) : i # j => ts[i].Name # ts[j].Name

\* C17: in the text Marshal returns, the section of every field that is
\* required or not empty has a line with the field's emitted key and the
\* field's value, also when several fields of the section are set.
C17_OwnValue ==
  (ret.op = "Marshal" /\ ret.outcome = "ok")
  => \A n \in Present(d) :
       \A f \in FieldNames(Tables[n]) :
         (~IsOptional(Tables[n], f) \/ SectionOf(d, n)[f] # <<>>)
         => \E l \in KeyLines(ret.text, n) :
              /\ l.key = <<EmittedKey(Tables[n], f)>>
              /\ l.value = SectionOf(d, n)[f]

\* C18: the text Marshal returns does not begin and does not end with a
\* space, a tab or a line break.
C18_Trimmed ==
  (ret.op = "Marshal" /\ ret.outcome = "ok")
  => /\ ret.text # <<>>
     /\ ~IsSpace(ret.text[1])
     /\ ~IsSpace(ret.text[Len(ret.text)])

\* Marshal has returned text for a record whose last section is a Socket
\* without a key, whose buffer ends with a header and two line breaks
C18_Witness ==
  /\ ret.op = "Marshal"
  /\ ret.outcome = "ok"
  /\ d.Socket = <<Zero(SocketFields)>>

\* C19: in the text Marshal returns, the line before every header but the
\* first is blank and the line before that one is not, and no other line of
\* the text is blank: one blank line between two sections.
C19_OneBlankLine ==
  (ret.op = "Marshal" /\ ret.outcome = "ok")
  => LET ls == ScanLines(ret.text)
     IN /\ \A i \in 2..Len(ls) :
             IsHeaderLine(ls[i]) => i >= 3 /\ ls[i - 1] = <<>> /\ ls[i - 2] # <<>>
        /\ \A i \in 1..Len(ls) :
             ls[i] = <<>> => i < Len(ls) /\ IsHeaderLine(ls[i + 1])

\* Marshal has returned text in which a section without a key, Install, is
\* followed by a section with one, Socket
C19_Witness ==
  /\ ret.op = "Marshal"
  /\ ret.outcome = "ok"
  /\ d.Install = Zero(InstallFields)
  /\ d.Socket # <<>>
  /\ d.Socket[1].ListenStream # <<>>

\* whether a value holds a "="
HoldsEquals(v) == \E i \in 1..Len(v) : v[i] = "="

\* C20: for every field whose value holds a "=", the text Marshal returns
\* has a line with the field's emitted key and the whole value, and
\* Unmarshal of that text returns the value in that field.
C20_FirstEquals ==
  (marshalled /\ ret.op = "Unmarshal")
  => \A n \in Present(d) :
       \A f \in FieldNames(Tables[n]) :
         HoldsEquals(SectionOf(d, n)[f])
         => /\ \E l \in KeyLines(stream, n) :
                 /\ l.key = <<EmittedKey(Tables[n], f)>>
                 /\ l.value = SectionOf(d, n)[f]
            /\ ret.outcome = "ok"
            /\ n \in Present(ret.daemon[1])
            /\ SectionOf(ret.daemon[1], n)[f] = SectionOf(d, n)[f]

\* the same for the fields of Unit, Service and Install other than
\* TimeoutSec and TimeoutStopSec, in a record without a Socket
EqualsKept ==
  (marshalled /\ ret.op = "Unmarshal" /\ d.Socket = <<>>)
  => \A i \in 1..3 :
       \A f \in FieldNames(Tables[Mandatory[i]]) \ {"TimeoutSec", "TimeoutStopSec"} :
         HoldsEquals(d[Mandatory[i]][f])
         => /\ \E l \in KeyLines(stream, Mandatory[i]) :
                 /\ l.key = <<EmittedKey(Tables[Mandatory[i]], f)>>
                 /\ l.value = d[Mandatory[i]][f]
            /\ ret.outcome = "ok"
            /\ ret.daemon[1][Mandatory[i]][f] = d[Mandatory[i]][f]

\* a round trip of a record in which Install.WantedBy holds a "="
EqualsKeptSeen ==
  /\ marshalled
  /\ ret.op = "Unmarshal"
  /\ d.Socket = <<>>
  /\ HoldsEquals(d.Install.WantedBy)

\* C21: a step in which Marshal or MarshalText returns, with text or with
\* an error, leaves every field of the Daemon and its Socket as they were.
C21_PureRead ==
  [][(ret'.op \in {"Marshal", "MarshalText"} /\ ret'.outcome \in {"ok", "error"})
     => d' = d]_vars

\* MarshalText has returned an error for a record that has a Socket
C21_Witness ==
  /\ ret.op = "MarshalText"
  /\ ret.outcome = "error"
  /\ d.Socket # <<>>

\* C22: a step in which UnmarshalText returns an error, for a text that
\* does not parse or for a section, leaves every field of the receiver as
\* it was.
C22_ErrorKeepsReceiver ==
  [][(ret'.op = "UnmarshalText" /\ ret'.outcome = "error") => d' = d]_vars

\* UnmarshalText has returned an error on a receiver that holds values
C22_Witness ==
  /\ ret.op = "UnmarshalText"
  /\ ret.outcome = "error"
  /\ d = Receiver

\* whether a text has a key line for field f of the section n
Named(text, n, f) ==
  LET file == Load(text).file
      i == SectionIndex(file, <<n>>)
  IN i # 0 /\ <<IniKey(Tables[n], f)>> \in DOMAIN file[i].keys

\* C23: after UnmarshalText returns without error the receiver is the
\* record Unmarshal returns for the same text: a field of Unit, Service or
\* Install the text has no key for is empty, and the Socket is absent when
\* the [Socket] section of the text has no key.
C23_ReplacesReceiver ==
  (ret.op = "UnmarshalText" /\ ret.outcome = "ok")
  => /\ Unmarshal(stream).outcome = "ok"
     /\ d = Unmarshal(stream).daemon[1]
     /\ \A i \in 1..3 :
          \A f \in FieldNames(Tables[Mandatory[i]]) :
            ~Named(stream, Mandatory[i], f) => d[Mandatory[i]][f] = <<>>
     /\ (DOMAIN SocketKeys(stream) = {} => d.Socket = <<>>)

\* UnmarshalText has succeeded on a text with a [Unit] section and without
\* the key After, which the receiver held, as it held a Socket
C23_Witness ==
  /\ ret.op = "UnmarshalText"
  /\ ret.outcome = "ok"
  /\ Has(stream, "Unit")
  /\ ~Named(stream, "Unit", "After")
  /\ d.Unit.After = <<>>
  /\ d.Socket = <<>>

\* C24: for every text, Unmarshal returns an error exactly when
\* UnmarshalText on a zero-valued Daemon does, the two errors have the same
\* kind and name the same section, and when both succeed the record
\* Unmarshal returns equals the receiver of UnmarshalText.
C24_SameDecoder ==
  ret.op = "Unmarshal"
  => LET t == UnmarshalText(ZeroDaemon, stream)
     IN /\ ret.outcome = t.outcome
        /\ ret.kind = t.kind
        /\ ret.section = t.section
        /\ (ret.outcome = "ok" => ret.daemon = t.daemon)

\* Unmarshal has returned a record with a field set
C24_Witness ==
  /\ ret.op = "Unmarshal"
  /\ ret.outcome = "ok"
  /\ ret.daemon[1].Service.ExecStart # <<>>

\* Unmarshal has returned the error of a text that does not parse
C24_ErrorSeen ==
  /\ ret.op = "Unmarshal"
  /\ ret.outcome = "error"
  /\ UnmarshalText(ZeroDaemon, stream).kind = "parse"

\* C25: in a step in which Marshal returns text, MarshalText under the
\* settings the library had when the call was made returns that text too,
\* and the three settings are after the call what they were before it.
C25_SettingsAgree ==
  [][(ret'.op = "Marshal" /\ ret'.outcome = "ok")
     => /\ \E o \in AllOrders(d) : MarshalText(d, o, ini).text = ret'.text
        /\ ini' = ini]_vars

\* for each order of the keys, MarshalText returns under the settings of
\* the state what it returns under the settings Marshal stores
SettingsIrrelevant ==
  \A o \in AllOrders(d) : MarshalText(d, o, ini) = MarshalText(d, o, MarshalSettings)

\* a record is about to be encoded under settings with PrettyFormat and
\* PrettyEqual set, other than the ones Marshal stores
SettingsIrrelevantSeen ==
  /\ ret.op = "none"
  /\ ini.PrettyFormat
  /\ ini.PrettyEqual
  /\ d.Unit.Wants # <<>>

\* C26: the text Marshal returns for a record whose Socket is present with
\* every field empty has a [Socket] header and no key line under it, and
\* Unmarshal of that text returns no error and a record without a Socket.
C26_EmptySocketLost ==
  (marshalled /\ d.Socket = <<Zero(SocketFields)>>)
  => /\ \E i \in 1..Len(HeaderNames(stream)) : HeaderNames(stream)[i] = <<"Socket">>
     /\ KeyLines(stream, "Socket") = {}
     /\ (ret.op = "Unmarshal" => ret.outcome = "ok" /\ ret.daemon[1].Socket = <<>>)

\* Unmarshal has returned for the text of a record with an all-empty Socket
C26_Witness ==
  /\ marshalled
  /\ d.Socket = <<Zero(SocketFields)>>
  /\ ret.op = "Unmarshal"

\* the positions of the key lines of a text between the header [name] and
\* the next header
LinesUnder(text, name) ==
  LET ls == ScanLines(text)
  IN {i \in 1..Len(ls) :
        /\ ls[i] # <<>>
        /\ ~IsHeaderLine(ls[i])
        /\ \E h \in 1..(i - 1) :
             /\ ls[h] = <<"[", name, "]">>
             /\ \A j \in (h + 1)..(i - 1) : ~IsHeaderLine(ls[j])}

IniKeys(n) == {IniKey(Tables[n], f) : f \in FieldNames(Tables[n])}

\* a text without its unknown input: the lines from position i on, under
\* the header cur, without the headers of sections no Daemon has, the lines
\* of those sections, and the key lines whose key the section's record type
\* does not declare
RECURSIVE KnownFrom(_, _, _)
KnownFrom(ls, i, cur) ==
  IF i > Len(ls) THEN <<>>
  ELSE LET line == TrimSpace(ls[i])
           endIdx == IndexAny(line, {"=", ":"})
           kname == TrimSpace(SubSeq(line, 1, endIdx - 1))
       IN IF IsHeaderLine(line)
          THEN (IF line[2] \in DOMAIN Tables THEN ls[i] \o <<NL>> ELSE <<>>)
               \o KnownFrom(ls, i + 1, line[2])
          ELSE (IF line = <<>> \/ endIdx = 0 THEN ls[i] \o <<NL>>
                ELSE IF cur \in DOMAIN Tables /\ Len(kname) = 1 /\ kname[1] \in IniKeys(cur)
                     THEN ls[i] \o <<NL>>
                     ELSE <<>>)
               \o KnownFrom(ls, i + 1, cur)

Known(text) == KnownFrom(ScanLines(text), 1, "")

\* C28: Unmarshal of a text that has the three mandatory sections and
\* holds a key its section's record type does not declare, or a section no
\* Daemon has, returns no error and the record it returns for the text
\* without them, when it returns one for that text.
C28_UnknownIgnored ==
  (/\ ret.op = "Unmarshal"
   /\ Complete(stream)
   /\ Known(stream) # stream
   /\ Unmarshal(Known(stream)).outcome = "ok")
  => /\ ret.outcome = "ok"
     /\ ret.daemon = Unmarshal(Known(stream)).daemon

\* the same, for every text, when the [Socket] section has no unknown key:
\* the outcome and the record are those of the text without the unknown
\* input
UnknownIgnored ==
  (ret.op = "Unmarshal" /\ SocketKeys(Known(stream)) = SocketKeys(stream))
  => /\ ret.outcome = Unmarshal(Known(stream)).outcome
     /\ ret.daemon = Unmarshal(Known(stream)).daemon

\* Unmarshal has returned a record for a text with an unknown key in [Unit]
\* and a section [Other]
UnknownIgnoredSeen ==
  /\ ret.op = "Unmarshal"
  /\ ret.outcome = "ok"
  /\ Complete(stream)
  /\ Has(stream, "Other")
  /\ KeysHash(Section(Load(stream).file, <<"Unit">>).section[1]) # EmptyMap
  /\ ~Named(stream, "Unit", "Description")

RequiredSlots == {<<"Unit", "Description">>, <<"Service", "ExecStart">>}

\* C30: for each section record, tags() returns one descriptor per declared
\* field in declaration order; its Name is the first segment of the
\* annotation, its Optional is true exactly when a later segment is
\* omitempty, its Value is nil exactly when the field is the empty string
\* and else points to the field's value; the descriptors that are not
\* optional are those of Unit.Description and Service.ExecStart.
C30_Descriptors ==
  \A n \in Present(d) :
    LET T == Tables[n]
        s == SectionOf(d, n)
        ts == tags(s, T)
    IN /\ Len(ts) = Len(T)
       /\ \A i \in 1..Len(ts) :
            /\ ts[i].Field = T[i].Field
            /\ ts[i].Name = T[i].systemd[1]
            /\ ts[i].Optional <=> \E j \in 2..Len(T[i].systemd) : T[i].systemd[j] = "omitempty"
            /\ ts[i].Value = <<>> <=> s[T[i].Field] = <<>>
            /\ ts[i].Value # <<>> => ts[i].Value = <<s[T[i].Field]>>
            /\ ~ts[i].Optional <=> <<n, T[i].Field>> \in RequiredSlots

\* Marshal has read the descriptors of the four record types, of a record
\* with set and with empty optional fields
C30_Witness ==
  /\ ret.op = "Marshal"
  /\ ret.outcome = "ok"
  /\ d.Socket # <<>>
  /\ d.Socket[1].ListenStream # <<>>
  /\ d.Socket[1].Accept = <<>>
  /\ d.Unit.Wants # <<>>

====
